---------------------------- MODULE Spec2Model ----------------------------
(***************************************************************************)
(* Master side of Tendis replication (tendisplus/replication/mpov.cpp):    *)
(* ReplManager::registerIncrSync, the push scheduler,                      *)
(* ReplManager::masterPushRoutine and ReplManager::masterSendBinlog.       *)
(*                                                                         *)
(* Every critical section of the manager mutex (a std::lock_guard scope)   *)
(* is one atomic action; every blocking socket call and the store read of  *)
(* masterSendBinlog is an action of its own, taken outside the mutex.      *)
(***************************************************************************)
EXTENDS Integers, Sequences, FiniteSets, Bags, TLC

VARIABLES
    firstBinlogId,    \* _firstBinlogId : storeId -> smallest binlog id retained
    binlog,           \* the store's binlog : storeId -> sequence of ReplLog rows
    pushStatus,       \* _pushStatus : storeId -> (clientId -> MPovStatus)
    clientIdGen,      \* _clientIdGen
    conns,            \* the accepted INCRSYNC connections, in order of arrival
    tasks,            \* bag of masterPushRoutine invocations (queued or running)
    fault,            \* "none", or the assertion or null dereference that ended the process
    failedPush,       \* history: the (storeId, clientId) whose push iteration failed
    mutex,            \* _mutex : the thread that holds it, or Free
    delivered,        \* history: storeId -> (clientId -> [from, rows]): the position
                      \* the entry registered at, and the rows acknowledged so far
    fullSyncs         \* the accepted FULLSYNC connections, in order of arrival

vars == <<firstBinlogId, binlog, pushStatus, clientIdGen, conns, tasks,
          fault, failedPush, mutex, delivered, fullSyncs>>

---------------------------------------------------------------------------
(* Bounds of the model *)

MaxConns == 2
MaxTxnId == 2

(* Time points are seconds measured from the current instant: SCLOCK::now() *)
(* is 0, a time point that is not in the future is 0 (the code only        *)
(* compares time points with now), and Tick lets one second pass.          *)

now == 0

(* Program constants *)

INSTANCE_NUM == 2
suggestBatch == 64
suggestBytes == 16 * 1024 * 1024
MiB == 1024 * 1024

Stores == 0 .. (INSTANCE_NUM - 1)

---------------------------------------------------------------------------
(* Small helpers *)

\* The sum of F over the elements of the sequence s.
SeqSum(s, F(_)) ==
    LET RECURSIVE Sum(_, _)
        Sum(lo, hi) ==
            IF lo > hi THEN 0
            ELSE IF lo = hi THEN F(s[lo])
            ELSE Sum(lo, (lo + hi) \div 2) + Sum((lo + hi) \div 2 + 1, hi)
    IN Sum(1, Len(s))

Last(s) == s[Len(s)]

RECURSIVE SetToSeq(_)
SetToSeq(S) ==
    IF S = {} THEN <<>>
    ELSE LET x == CHOOSE x \in S : TRUE IN <<x>> \o SetToSeq(S \ {x})

Erase(m, k) == [x \in (DOMAIN m) \ {k} |-> m[x]]

Insert(m, k, v) == [x \in (DOMAIN m) \cup {k} |-> IF x = k THEN v ELSE m[x]]

---------------------------------------------------------------------------
(* The binlog.  A ReplLog row is [txnId, localId, size]: the txnId of its   *)
(* ReplLogKey, its rank inside the transaction, and the byte length of the *)
(* operation payload of its ReplLogValue (getOpValue().size()).            *)

ReplLog(t, l, sz) == [txnId |-> t, localId |-> l, size |-> sz]

\* The rows of one transaction t whose payload sizes are the sequence szs.
TxnRows(t, szs) == [l \in 1 .. Len(szs) |-> ReplLog(t, l, szs[l])]

\* txn->createBinlogCursor(begin): the rows with txnId >= begin, in log order.
BinlogCursor(lg, begin) == SelectSeq(lg, LAMBDA r : r.txnId >= begin)

\* The id the store gives its next transaction.
NextTxnId(lg, first) ==
    IF lg = <<>> THEN (IF first > 1 THEN first ELSE 1) ELSE Last(lg).txnId + 1

---------------------------------------------------------------------------
(* masterSendBinlog, lines 117-146: the batching loop.  rows is what the   *)
(* cursor yields; errAt is the index of the cursor->next() call that       *)
(* returns an error other than ERR_EXHAUST (0: no such call).  The result  *)
(* is [ok, binlogs].                                                       *)

\* NewTxn with the threshold looked at on every row.
NewTxnEveryRow(nowId, txnId) == TRUE

\* Line 129: the row starts a transaction.
NewTxn(nowId, txnId) == nowId = 0 \/ nowId # txnId

\* The break test of line 131.
BatchFull(cnt, estimateSize) ==
    cnt >= suggestBatch \/ estimateSize >= suggestBytes

\* Lines 118-120: the loop's variables before the first read.
LoopInit ==
    [cnt |-> 0, nowId |-> 0, estimateSize |-> 0, binlogs |-> <<>>,
     brk |-> FALSE]

\* Lines 125-138: one pass of the loop body over the row r just read; brk is
\* the break of line 132.
LoopBody(st, r) ==
    LET cnt1 == st.cnt + 1    \* uint32_t: no wrap below 2^32 rows
        est1 == st.estimateSize + r.size
        new == NewTxn(st.nowId, r.txnId)
        brk == new /\ BatchFull(cnt1, est1)
    IN [cnt          |-> cnt1,
        nowId        |-> IF new THEN r.txnId ELSE st.nowId,
        estimateSize |-> est1,
        binlogs      |-> IF brk THEN st.binlogs ELSE Append(st.binlogs, r),
        brk          |-> brk]

\* Lines 122-146: i is the index of the next cursor->next() call.
RECURSIVE BatchLoop(_, _, _, _)
BatchLoop(rows, i, errAt, st) ==
    CASE st.brk -> [ok |-> TRUE, binlogs |-> st.binlogs]
      [] ~st.brk /\ i = errAt -> [ok |-> FALSE, binlogs |-> <<>>]
      [] ~st.brk /\ i # errAt /\ i > Len(rows) ->
             [ok |-> TRUE, binlogs |-> st.binlogs]
      [] OTHER -> BatchLoop(rows, i + 1, errAt, LoopBody(st, rows[i]))

\* ReadBatch with the cursor opened at binlogPos.
ReadBatchFromPos(lg, binlogPos, errAt) ==
    BatchLoop(BinlogCursor(lg, binlogPos), 1, errAt, LoopInit)

\* Lines 113-146: the cursor from binlogPos+1 and the loop over it.
ReadBatch(lg, binlogPos, errAt) ==
    BatchLoop(BinlogCursor(lg, binlogPos + 1), 1, errAt, LoopInit)

---------------------------------------------------------------------------
(* masterSendBinlog, lines 148-163: the frame and its timeout.             *)

RECURSIVE Digits(_)
Digits(n) == IF n < 10 THEN 1 ELSE 1 + Digits(n \div 10)

\* Command::fmtMultiBulkLen: "*<n>\r\n"
fmtMultiBulkLen(n) == 1 + Digits(n) + 2

\* Command::fmtBulk: "$<len>\r\n<bytes>\r\n"
fmtBulk(len) == 1 + Digits(len) + 2 + len + 2

\* ReplLog::encode(): the byte lengths of kv.first and kv.second.
EncodedKeyLen(r) == 1 + 8 + 2 + 1
EncodedValLen(r) == 1 + 4 + r.size

\* stingtoWrite.size()
FrameSize(binlogs, dstStoreId) ==
    fmtMultiBulkLen(Len(binlogs) * 2 + 2)
    + fmtBulk(12)
    + fmtBulk(Digits(dstStoreId))
    + SeqSum(binlogs, LAMBDA r : fmtBulk(EncodedKeyLen(r)) + fmtBulk(EncodedValLen(r)))

\* Lines 158-163.
WriteSecs(size) ==
    IF size > 1024 * 1024 THEN 2
    ELSE IF size > 1024 * 1024 * 10 THEN 4
    ELSE 1

\* Lines 148-157: what writeData puts on the wire.
Frame(binlogs, dstStoreId) ==
    [arrayLen |-> Len(binlogs) * 2 + 2,
     cmd      |-> "applybinlogs",
     dst      |-> dstStoreId,
     rows     |-> binlogs,
     size     |-> FrameSize(binlogs, dstStoreId)]

\* ReturnPos with 0 for an empty batch.
ReturnPosZeroWhenEmpty(binlogs, binlogPos) ==
    IF Len(binlogs) = 0 THEN 0 ELSE binlogs[Len(binlogs)].txnId

\* ReturnPos with the first row of the batch for the last.
ReturnPosFirstRow(binlogs, binlogPos) ==
    IF Len(binlogs) = 0 THEN binlogPos ELSE binlogs[1].txnId

\* Lines 177-181: the position masterSendBinlog returns after "+OK".
ReturnPos(binlogs, binlogPos) ==
    IF Len(binlogs) = 0 THEN binlogPos ELSE binlogs[Len(binlogs)].txnId

---------------------------------------------------------------------------
(* The manager mutex.  A std::lock_guard<std::mutex> scope is entered when *)
(* the mutex is free and holds it for the thread up to the end of the     *)
(* scope; a thread is named by the handler it runs.                        *)

Free == <<>>

ConnThread(k) == <<"registerIncrSync", k>>

TaskThread(t) == <<"masterPushRoutine", t.storeId, t.clientId>>

SchedThread == <<"controlRoutine">>

StoreThread(s) == <<"recycleBinlog", s>>

\* The constructor of the lock_guard.
LockGuard(m, thread) == thread

\* ScopeExit that leaves the mutex to its holder.
ScopeExitKeepsLock(m) == m

\* The destructor of the lock_guard, at the end of its scope.
ScopeExit(m) == Free

\* A critical section of thread: entered with the mutex free, left with
\* what the end of the scope leaves.
Locked(thread) ==
    /\ mutex = Free
    /\ mutex' = ScopeExit(LockGuard(mutex, thread))

---------------------------------------------------------------------------
(* registerIncrSync, lines 195-273.  A connection is a record              *)
(* [pc, storeId, dstStoreId, binlogPos, firstPos, io]; io is the sequence *)
(* of lines received from and sent to the slave on that socket.            *)

Recv(line) == [dir |-> "recv", line |-> line]
Send(line) == [dir |-> "send", line |-> line]

\* The arguments a slave may give, as character sequences.
StoreIdArgs == {<<"0">>, <<"1">>, <<"9">>, <<"x">>}
DstStoreIdArgs == {<<"0">>, <<"1", "2">>}
BinlogPosArgs == {<<"0">>, <<"1">>}

DigitChars == <<"0", "1", "2", "3", "4", "5", "6", "7", "8", "9">>

IsDigit(ch) == \E d \in 1 .. 10 : DigitChars[d] = ch

DigitVal(ch) == (CHOOSE d \in 1 .. 10 : DigitChars[d] = ch) - 1

\* stoul: the value of the leading decimal digits; an exception (ok = FALSE)
\* when the string does not start with a digit.
RECURSIVE StoulPrefix(_, _, _)
StoulPrefix(str, i, acc) ==
    IF i > Len(str) \/ ~IsDigit(str[i]) THEN acc
    ELSE StoulPrefix(str, i + 1, acc * 10 + DigitVal(str[i]))

stoul(str) ==
    IF str = <<>> \/ ~IsDigit(str[1])
    THEN [ok |-> FALSE, value |-> 0]
    ELSE [ok |-> TRUE, value |-> StoulPrefix(str, 1, 0)]

\* MPovStatus, as constructed at lines 262-268.
MPovStatus(dstStoreId, binlogPos, t, client, clientId) ==
    [isRunning     |-> FALSE,
     dstStoreId    |-> dstStoreId,
     binlogPos     |-> binlogPos,
     nextSchedTime |-> t,
     client        |-> client,
     clientId      |-> clientId]

\* The handler returns: its locals are gone, the lines exchanged remain.
ConnDone(c, io) ==
    [pc |-> "done", storeId |-> 0, dstStoreId |-> 0, binlogPos |-> 0,
     firstPos |-> 0, io |-> io]

\* Lines 199-226: parse the arguments, validate the store ids, and read
\* _firstBinlogId[storeId] under the mutex.
registerIncrSyncParse ==
    /\ fault = "none"
    /\ Len(conns) < MaxConns
    /\ \E storeIdArg \in StoreIdArgs, dstStoreIdArg \in DstStoreIdArgs,
          binlogPosArg \in BinlogPosArgs :
         LET storeId == stoul(storeIdArg)
             dstStoreId == stoul(dstStoreIdArg)
             binlogPos == stoul(binlogPosArg)
             c0 == [pc |-> "done", storeId |-> 0, dstStoreId |-> 0,
                    binlogPos |-> 0, firstPos |-> 0,
                    io |-> <<Recv("INCRSYNC")>>]
             valid == /\ storeId.ok /\ dstStoreId.ok /\ binlogPos.ok
                      /\ storeId.value < INSTANCE_NUM
                      /\ dstStoreId.value < INSTANCE_NUM
         IN
         /\ IF valid THEN Locked(ConnThread(Len(conns) + 1))
                     ELSE UNCHANGED mutex
         /\ conns' = Append(conns,
              IF ~storeId.ok \/ ~dstStoreId.ok \/ ~binlogPos.ok
              THEN [c0 EXCEPT !.io = Append(@, Send("-ERR parse opts failed"))]
              ELSE IF storeId.value >= INSTANCE_NUM
                      \/ dstStoreId.value >= INSTANCE_NUM
              THEN [c0 EXCEPT !.io = Append(@, Send("-ERR invalid storeId"))]
              ELSE [c0 EXCEPT !.pc = "check",
                              !.storeId = storeId.value,
                              !.dstStoreId = dstStoreId.value,
                              !.binlogPos = binlogPos.value,
                              !.firstPos = firstBinlogId[storeId.value]])
    /\ UNCHANGED <<firstBinlogId, binlog, pushStatus, clientIdGen, tasks,
                   fault, failedPush, delivered, fullSyncs>>

\* CheckFirstPos without the check.
CheckFirstPosSkipped(c) ==
    [c EXCEPT !.pc = "pong", !.firstPos = 0, !.io = Append(@, Send("+OK"))]

\* Lines 232-236: the optimistic check and the reply.
CheckFirstPos(c) ==
    IF c.firstPos > c.binlogPos
    THEN ConnDone(c, Append(c.io, Send("-ERR invalid binlogPos")))
    ELSE [c EXCEPT !.pc = "pong", !.firstPos = 0, !.io = Append(@, Send("+OK"))]

\* What readLine may yield: a line of the slave, or a failure (timeout, EOF).
ReadFailed == "<read failed>"
SlaveLines == {"+PONG", "+OK"}

\* ReadPong that takes any line for +PONG.
ReadPongAnyLine(c, reply) ==
    IF reply = ReadFailed
    THEN ConnDone(c, Append(c.io, Recv(ReadFailed)))
    ELSE [c EXCEPT !.pc = "regist", !.io = Append(@, Recv(reply))]

\* Lines 237-246: the line read after "+OK".
ReadPong(c, reply) ==
    IF reply = ReadFailed
    THEN ConnDone(c, Append(c.io, Recv(ReadFailed)))
    ELSE IF reply # "+PONG"
    THEN ConnDone(c, Append(c.io, Recv(reply)))
    ELSE [c EXCEPT !.pc = "regist", !.io = Append(@, Recv(reply))]

\* Lines 232-246: the reply to the request and, after "+OK", the read of
\* the slave's answer; socket I/O outside the mutex.
registerIncrSyncHandshake(k) ==
    /\ fault = "none"
    /\ conns[k].pc = "check"
    /\ LET c1 == CheckFirstPos(conns[k]) IN
       IF c1.pc = "pong"
       THEN \E reply \in SlaveLines \cup {ReadFailed} :
              conns' = [conns EXCEPT ![k] = ReadPong(c1, reply)]
       ELSE conns' = [conns EXCEPT ![k] = c1]
    /\ UNCHANGED <<firstBinlogId, binlog, pushStatus, clientIdGen, tasks,
                   fault, failedPush,
                   mutex, delivered, fullSyncs>>

\* FetchAdd that leaves the counter where it is.
FetchAddStuck(gen) == gen

\* Line 259: _clientIdGen after fetch_add(1); the id handed out is the value
\* before.
FetchAdd(gen) == gen + 1

\* RegistPosOk without the second check.
RegistPosUnchecked(first, binlogPos) == TRUE

\* Line 256: the authoritative check, under the mutex.
RegistPosOk(first, binlogPos) == ~(first > binlogPos)

\* Lines 249-270: the registration, one critical section.
registerIncrSyncRegist(k) ==
    LET c == conns[k] IN
    /\ fault = "none"
    /\ c.pc = "regist"
    /\ Locked(ConnThread(k))
    /\ conns' = [conns EXCEPT ![k] = ConnDone(c, c.io)]
    /\ IF RegistPosOk(firstBinlogId[c.storeId], c.binlogPos)
       THEN /\ clientIdGen' = FetchAdd(clientIdGen)
            /\ pushStatus' = [pushStatus EXCEPT ![c.storeId] =
                   Insert(@, clientIdGen,
                          MPovStatus(c.dstStoreId, c.binlogPos, now, k,
                                     clientIdGen))]
            /\ delivered' = [delivered EXCEPT ![c.storeId] =
                   Insert(@, clientIdGen,
                          [from |-> c.binlogPos, rows |-> <<>>])]
       ELSE UNCHANGED <<clientIdGen, pushStatus, delivered>>
    /\ UNCHANGED <<firstBinlogId, binlog, tasks, fault,
                   failedPush, fullSyncs>>

---------------------------------------------------------------------------
(* The push scheduler (ReplManager::controlRoutine, repl_manager.cpp) and  *)
(* masterPushRoutine, lines 52-99.  A task is one masterPushRoutine        *)
(* invocation handed to the incremental-push pool: its position (pc), its *)
(* locals, and the frames it has written to the slave (sent).             *)

Task(storeId, clientId) ==
    [storeId |-> storeId, clientId |-> clientId, pc |-> "snapshot",
     binlogPos |-> 0, client |-> 0, dstStoreId |-> 0, nextSched |-> 0,
     binlogs |-> <<>>, sent |-> <<>>, secs |-> 0, ok |-> FALSE, newPos |-> 0]

\* masterPushRoutine returns: what is left is its finaliser, which captured
\* storeId, clientId and nextSched.
Return(t, nextSched) ==
    [Task(t.storeId, t.clientId) EXCEPT !.pc = "guard", !.nextSched = nextSched]

TaskSet == BagToSet(tasks)

Step(t, t2) == tasks' = (tasks (-) SetToBag({t})) (+) SetToBag({t2})

Exit(t) == tasks' = tasks (-) SetToBag({t})

\* The tasks after one second: the time point each holds is one second nearer.
BagOfTicked ==
    LET Ticked(t) == [t EXCEPT !.nextSched = IF @ > now THEN @ - 1 ELSE @]
        Pre(u) == {t \in TaskSet : Ticked(t) = u}
    IN [u \in {Ticked(t) : t \in TaskSet} |->
          SeqSum(SetToSeq(Pre(u)), LAMBDA t : tasks[t])]

\* The number of invocations of masterPushRoutine(storeId, clientId) alive.
Active(storeId, clientId) ==
    BagCardinality([t \in {x \in TaskSet : x.storeId = storeId
                                           /\ x.clientId = clientId}
                    |-> tasks[t]])

\* The scheduler's test of an entry.
Ready(mpov, t0) == ~mpov.isRunning /\ mpov.nextSchedTime <= t0

\* One dispatch of the scheduler's sweep, under the mutex.
schedule(s, c) ==
    /\ fault = "none"
    /\ c \in DOMAIN pushStatus[s]
    /\ Ready(pushStatus[s][c], now)
    /\ Locked(SchedThread)
    /\ pushStatus' = [pushStatus EXCEPT ![s][c].isRunning = TRUE]
    /\ tasks' = tasks (+) SetToBag({Task(s, c)})
    /\ UNCHANGED <<firstBinlogId, binlog, clientIdGen, conns, fault,
                   failedPush, delivered, fullSyncs>>

\* Lines 53 and 67-79: nextSched, and the snapshot under the mutex.
Snapshot(t, mpovs, t0) ==
    IF t.clientId \notin DOMAIN mpovs
    THEN Return(t, t0 + 1)
    ELSE [t EXCEPT !.nextSched = t0,
                   !.binlogPos = mpovs[t.clientId].binlogPos,
                   !.client = mpovs[t.clientId].client,
                   !.dstStoreId = mpovs[t.clientId].dstStoreId,
                   !.pc = "send"]

masterPushRoutineSnapshot(t) ==
    /\ fault = "none"
    /\ t.pc = "snapshot"
    /\ Locked(TaskThread(t))
    /\ Step(t, Snapshot(t, pushStatus[t.storeId], now))
    /\ UNCHANGED <<firstBinlogId, binlog, pushStatus, clientIdGen, conns,
                   fault, failedPush, delivered, fullSyncs>>

\* The cursor->next() call that fails: none, or the first.
CursorErrAt == {0, 1}

\* masterSendBinlog, lines 105-163: the store transaction, the cursor loop
\* and the frame.  txnOk: createTransaction succeeded.
SendBuild(t, lg, txnOk, errAt) ==
    LET b == ReadBatch(lg, t.binlogPos, errAt) IN
    IF ~txnOk \/ ~b.ok
    THEN [t EXCEPT !.ok = FALSE, !.pc = "finish"]
    ELSE [t EXCEPT !.binlogs = b.binlogs,
                   !.secs = WriteSecs(FrameSize(b.binlogs, t.dstStoreId)),
                   !.pc = "write"]

\* Lines 164-167: writeData.
SendWrite(t, writeOk) ==
    IF ~writeOk
    THEN [t EXCEPT !.ok = FALSE, !.pc = "finish"]
    ELSE [t EXCEPT !.sent = <<Frame(t.binlogs, t.dstStoreId)>>, !.pc = "read"]

\* Lines 168-181: the acknowledgement and the returned position.
SendAck(t, reply) ==
    IF reply = ReadFailed \/ reply # "+OK"
    THEN [t EXCEPT !.ok = FALSE, !.pc = "finish"]
    ELSE [t EXCEPT !.ok = TRUE, !.newPos = ReturnPos(t.binlogs, t.binlogPos),
                   !.pc = "finish"]

\* masterSendBinlog, lines 101-182, called outside the mutex: it reads the
\* store, writes the frame and reads the acknowledgement.
SendBinlog(t, lg, txnOk, errAt, writeOk, reply) ==
    LET t1 == SendBuild(t, lg, txnOk, errAt)
        t2 == SendWrite(t1, writeOk)
    IN IF t1.pc # "write" THEN t1
       ELSE IF t2.pc # "read" THEN t2
       ELSE SendAck(t2, reply)

masterSendBinlog(t) ==
    /\ fault = "none"
    /\ t.pc = "send"
    /\ \E txnOk \in BOOLEAN, errAt \in CursorErrAt, writeOk \in BOOLEAN,
          reply \in SlaveLines \cup {ReadFailed} :
         LET t2 == SendBinlog(t, binlog[t.storeId], txnOk, errAt, writeOk, reply)
         IN /\ Step(t, t2)
            /\ failedPush' = IF t2.ok THEN failedPush
                              ELSE failedPush \cup {<<t.storeId, t.clientId>>}
            /\ delivered' =
                  IF t2.ok /\ t.clientId \in DOMAIN delivered[t.storeId]
                  THEN [delivered EXCEPT ![t.storeId][t.clientId].rows =
                           @ \o t2.binlogs]
                  ELSE delivered
    /\ UNCHANGED <<firstBinlogId, binlog, pushStatus, clientIdGen, conns, fault,
                   mutex, fullSyncs>>

\* OnFailure that clears the store's map.
OnFailureErasesAll(mpovs, clientId) == [x \in {} |-> mpovs[x]]

\* OnFailure that leaves the entry in the map.
OnFailureKeeps(mpovs, clientId) == mpovs

\* OnSuccess that also clears isRunning, ahead of the finaliser.
OnSuccessStopsRunning(mpov, newPos) ==
    [mpov EXCEPT !.binlogPos = newPos, !.isRunning = FALSE]

\* Lines 86-88: the entry map after a failed iteration.
OnFailure(mpovs, clientId) == Erase(mpovs, clientId)

\* Line 92: the entry after a successful iteration.
OnSuccess(mpov, newPos) == [mpov EXCEPT !.binlogPos = newPos]

\* NextSched with no back-off.
NextSchedImmediate(newPos, binlogPos, t0) == t0

\* Lines 93-97.
NextSched(newPos, binlogPos, t0) ==
    IF newPos > binlogPos THEN t0 ELSE t0 + 1

\* Lines 82-98: the critical section after masterSendBinlog.
masterPushRoutineFinish(t) ==
    LET s == t.storeId
        c == t.clientId
    IN
    /\ fault = "none"
    /\ t.pc = "finish"
    /\ Locked(TaskThread(t))
    /\ IF ~t.ok
       THEN /\ pushStatus' = [pushStatus EXCEPT ![s] = OnFailure(@, c)]
            /\ delivered' = [delivered EXCEPT ![s] = Erase(@, c)]
            /\ Step(t, Return(t, t.nextSched))
            /\ UNCHANGED fault
       ELSE IF c \notin DOMAIN pushStatus[s]
       THEN \* _pushStatus[storeId][clientId] is a null pointer
            /\ fault' = "null dereference"
            /\ UNCHANGED <<pushStatus, tasks, delivered>>
       ELSE /\ pushStatus' = [pushStatus EXCEPT ![s][c] = OnSuccess(@, t.newPos)]
            /\ Step(t, Return(t, NextSched(t.newPos, t.binlogPos, now)))
            /\ UNCHANGED <<fault, delivered>>
    /\ UNCHANGED <<firstBinlogId, binlog, clientIdGen, conns, failedPush,
                   fullSyncs>>

\* Lines 61-62: what the finaliser stores.
GuardReset(mpov, nextSched) ==
    [mpov EXCEPT !.isRunning = FALSE, !.nextSchedTime = nextSched]

\* Lines 54-65: the finaliser, run when the routine returns.
masterPushRoutineGuard(t) ==
    LET s == t.storeId
        c == t.clientId
    IN
    /\ fault = "none"
    /\ t.pc = "guard"
    /\ Locked(TaskThread(t))
    /\ IF c \notin DOMAIN pushStatus[s]
       THEN /\ Exit(t)
            /\ UNCHANGED <<pushStatus, fault>>
       ELSE IF ~pushStatus[s][c].isRunning
       THEN \* INVARIANT(mpov[clientId]->isRunning) fails
            /\ fault' = "INVARIANT"
            /\ UNCHANGED <<pushStatus, tasks>>
       ELSE /\ pushStatus' = [pushStatus EXCEPT ![s][c] =
                                  GuardReset(@, t.nextSched)]
            /\ Exit(t)
            /\ UNCHANGED fault
    /\ UNCHANGED <<firstBinlogId, binlog, clientIdGen, conns, failedPush,
                   delivered, fullSyncs>>

---------------------------------------------------------------------------
(* The environment: the clock, the store's commits and binlog recycling.   *)

\* One second passes: every stored time point is one second nearer.
Nearer(tp) == IF tp > now THEN tp - 1 ELSE tp

Tick ==
    /\ fault = "none"
    /\ \/ \E s \in Stores : \E c \in DOMAIN pushStatus[s] :
            pushStatus[s][c].nextSchedTime > now
       \/ \E t \in TaskSet : t.nextSched > now
    /\ pushStatus' = [s \in Stores |-> [c \in DOMAIN pushStatus[s] |->
           [pushStatus[s][c] EXCEPT !.nextSchedTime = Nearer(@)]]]
    /\ tasks' = BagOfTicked
    /\ UNCHANGED <<firstBinlogId, binlog, clientIdGen, conns, fault,
                   failedPush,
                   mutex, delivered, fullSyncs>>

\* The payload sizes of the rows of the transactions the store commits.
TxnShapes == {<<1, 1>>}

\* A transaction commits on store s: its rows enter the binlog together.
commitTxn(s) ==
    /\ fault = "none"
    /\ NextTxnId(binlog[s], firstBinlogId[s]) <= MaxTxnId
    /\ \E szs \in TxnShapes :
         binlog' = [binlog EXCEPT ![s] =
             @ \o TxnRows(NextTxnId(binlog[s], firstBinlogId[s]), szs)]
    /\ UNCHANGED <<firstBinlogId, pushStatus, clientIdGen, conns, tasks,
                   fault, failedPush,
                   mutex, delivered, fullSyncs>>

\* Binlog recycling on store s: _firstBinlogId[s] advances to v and the rows
\* below v are dropped; it does not pass the position of a live replica.
recycleBinlog(s) ==
    /\ fault = "none"
    /\ Locked(StoreThread(s))
    /\ \E v \in (firstBinlogId[s] + 1) .. NextTxnId(binlog[s], firstBinlogId[s]) :
         /\ \A c \in DOMAIN pushStatus[s] : v <= pushStatus[s][c].binlogPos
         /\ firstBinlogId' = [firstBinlogId EXCEPT ![s] = v]
         /\ binlog' = [binlog EXCEPT ![s] = BinlogCursor(@, v)]
    /\ UNCHANGED <<pushStatus, clientIdGen, conns, tasks, fault,
                   failedPush, delivered, fullSyncs>>

---------------------------------------------------------------------------
(* The manager after construction, and its steps.                          *)

NoMPov == [c \in {} |-> 0]

Init ==
    /\ firstBinlogId = [s \in Stores |-> 0]
    /\ binlog = [s \in Stores |-> <<>>]
    /\ pushStatus = [s \in Stores |-> NoMPov]
    /\ clientIdGen = 0
    /\ conns = <<>>
    /\ tasks = EmptyBag
    /\ fault = "none"
    /\ failedPush = {}
    /\ mutex = Free
    /\ delivered = [s \in Stores |-> NoMPov]
    /\ fullSyncs = <<>>

Next ==
    \/ registerIncrSyncParse
    \/ \E k \in 1 .. Len(conns) : registerIncrSyncHandshake(k)
    \/ \E k \in 1 .. Len(conns) : registerIncrSyncRegist(k)
    \/ \E s \in Stores : \E c \in DOMAIN pushStatus[s] : schedule(s, c)
    \/ \E t \in TaskSet : masterPushRoutineSnapshot(t)
    \/ \E t \in TaskSet : masterSendBinlog(t)
    \/ \E t \in TaskSet : masterPushRoutineFinish(t)
    \/ \E t \in TaskSet : masterPushRoutineGuard(t)
    \/ Tick
    \/ \E s \in Stores : commitTxn(s)
    \/ \E s \in Stores : recycleBinlog(s)

Spec == Init /\ [][Next]_vars

---------------------------------------------------------------------------
(* The batcher on a loaded store: one slave registered on store 0 at       *)
(* fromPos, and a binlog of lead one-row transactions followed by a tail  *)
(* of transactions of the shapes below.                                   *)

MaxTail == 2

LeadCounts ==
    {0, suggestBatch - 2, suggestBatch - 1, suggestBatch, suggestBatch + 6}

BatchShapes ==
    {<<1>>, <<1, 1, 1>>, <<suggestBytes>>, <<suggestBytes, 1>>,
     <<1, suggestBytes>>, <<10 * MiB, 10 * MiB, 10 * MiB>>}

FromPositions == {0, 1}

\* The binlog whose i-th transaction has id i and the rows shapes[i].
RECURSIVE LogOf(_, _)
LogOf(shapes, i) ==
    IF i > Len(shapes) THEN <<>>
    ELSE TxnRows(i, shapes[i]) \o LogOf(shapes, i + 1)

BatchLogs ==
    {LogOf([i \in 1 .. lead |-> <<1>>] \o tail, 1) :
        lead \in LeadCounts,
        tail \in UNION {[1 .. n -> BatchShapes] : n \in 0 .. MaxTail}}

Handshake == <<Recv("INCRSYNC"), Send("+OK"), Recv("+PONG")>>

BatchInit ==
    /\ firstBinlogId = [s \in Stores |-> 0]
    /\ \E lg \in BatchLogs :
         binlog = [s \in Stores |-> IF s = 0 THEN lg ELSE <<>>]
    /\ \E fromPos \in FromPositions :
         /\ pushStatus = [s \in Stores |->
               IF s = 0 THEN Insert(NoMPov, 0, MPovStatus(0, fromPos, now, 1, 0))
               ELSE NoMPov]
         /\ delivered = [s \in Stores |->
               IF s = 0 THEN Insert(NoMPov, 0, [from |-> fromPos, rows |-> <<>>])
               ELSE NoMPov]
    /\ clientIdGen = 1
    /\ conns = <<ConnDone(0, Handshake)>>
    /\ tasks = EmptyBag
    /\ fault = "none"
    /\ failedPush = {}
    /\ mutex = Free
    /\ fullSyncs = <<>>

BatchNext ==
    \/ \E s \in Stores : \E c \in DOMAIN pushStatus[s] : schedule(s, c)
    \/ \E t \in TaskSet : masterPushRoutineSnapshot(t)
    \/ \E t \in TaskSet : masterSendBinlog(t)
    \/ \E t \in TaskSet : masterPushRoutineFinish(t)
    \/ \E t \in TaskSet : masterPushRoutineGuard(t)
    \/ Tick

BatchSpec == BatchInit /\ [][BatchNext]_vars

\* The scheduler sweeps for ever, the pool runs what it is handed, socket
\* calls end within their timeouts, and time passes.
BatchLiveSpec ==
    /\ BatchSpec
    /\ WF_vars(\E s \in Stores : \E c \in DOMAIN pushStatus[s] : schedule(s, c))
    /\ WF_vars(\E t \in TaskSet : masterPushRoutineSnapshot(t))
    /\ WF_vars(\E t \in TaskSet : masterSendBinlog(t))
    /\ WF_vars(\E t \in TaskSet : masterPushRoutineFinish(t))
    /\ WF_vars(\E t \in TaskSet : masterPushRoutineGuard(t))
    /\ WF_vars(Tick)

---------------------------------------------------------------------------
(* supplyFullSync, lines 24-46, and supplyFullSyncRoutine, lines 275-357.  *)
(* A full sync is a record [pc, storeId, files, idx, remain, backups,      *)
(* releases, log, io]: files is the file list of the backup, idx the file  *)
(* the for loop of line 317 is at, remain the local of line 330, backups   *)
(* and releases the numbers of store->backup() successes and of            *)
(* store->releaseBackup() calls, log the last line logged, and io the      *)
(* lines and byte blocks exchanged on the socket.                          *)

MaxFullSyncs == 2

\* A block of len raw bytes written by writeData.
Data(len) == [dir |-> "data", len |-> len]

\* readBuf.capacity() after reserve(20MB), line 316.
ReadBufCapacity == 20 * MiB

\* The (name, size) lists store->backup() may give, in the order of getFileList().
FileNames == <<"000001.sst", "MANIFEST">>
FileSizes == {0, 12, ReadBufCapacity, ReadBufCapacity + 1}
FileLists ==
    {[i \in 1 .. n |-> [name |-> FileNames[i], size |-> sz[i]]] :
        n \in 0 .. Len(FileNames), sz \in [1 .. Len(FileNames) -> FileSizes]}

\* The JSON object of lines 300-307, written as one line.
ManifestLine(files) == [dir |-> "send", json |-> files]

\* What store->backup() may return: an error, or a BackupInfo.
BackupResults ==
    {[ok |-> FALSE, files |-> <<>>]} \cup {[ok |-> TRUE, files |-> fl] : fl \in FileLists}

\* What the slave may answer when the transfer is over.
AckLines == {"+OK"}

\* SegmentMgr::getInstanceById: the store, or nullptr (-1) for an id no
\* store has.
getInstanceById(storeId) == IF storeId \in Stores THEN storeId ELSE -1

FullSync(storeId) ==
    [pc |-> "start", storeId |-> storeId, files |-> <<>>, idx |-> 0,
     remain |-> 0, backups |-> 0, releases |-> 0, log |-> "", io |-> <<>>]

\* The handler or the routine returns: its locals are gone.
FullSyncDone(f, log) ==
    [f EXCEPT !.pc = "done", !.storeId = 0, !.idx = 0, !.remain = 0,
              !.log = log]

\* Lines 24-46: the admission test, the parse of storeIdArg, and the
\* hand-over to the full-sync pool.
supplyFullSync ==
    /\ fault = "none"
    /\ Len(fullSyncs) < MaxFullSyncs
    /\ \E isFull \in BOOLEAN, storeIdArg \in StoreIdArgs :
         LET expStoreId == stoul(storeIdArg)
             f0 == [FullSync(0) EXCEPT !.io = <<Recv("FULLSYNC")>>]
         IN fullSyncs' = Append(fullSyncs,
              IF isFull
              THEN FullSyncDone([f0 EXCEPT !.io = Append(@, Send("-ERR workerpool full"))], "")
              ELSE IF ~expStoreId.ok \/ expStoreId.value < 0
              THEN FullSyncDone([f0 EXCEPT !.io = Append(@, Send("-ERR invalid storeId"))], "")
              ELSE [f0 EXCEPT !.storeId = expStoreId.value])
    /\ UNCHANGED <<firstBinlogId, binlog, pushStatus, clientIdGen, conns,
                   tasks, fault, failedPush, mutex, delivered>>

\* ReleaseBackup that does not call the store.
ReleaseBackupSkipped(f) == f

\* Lines 292-298: the scope guard, run when the routine returns.
ReleaseBackup(f) == [f EXCEPT !.releases = @ + 1]

\* A return of the routine after line 292: the guard runs.
GuardedReturn(f, log) == ReleaseBackup(FullSyncDone(f, log))

\* The for loop of line 317 moves to the next file, or ends.
NextFile(f) ==
    IF f.idx + 1 > Len(f.files)
    THEN [f EXCEPT !.idx = 0, !.pc = "ack"]
    ELSE [f EXCEPT !.idx = @ + 1, !.pc = "file"]

\* Lines 277-313: the store, the backup, the guard and the manifest line.
\* running: store->isRunning(); bkInfo: what store->backup() returns;
\* writeOk: writeLine succeeded.
RoutineStart(f, running, bkInfo, writeOk) ==
    IF ~running
    THEN FullSyncDone([f EXCEPT !.io = Append(@, Send("-ERR store is not running"))], "")
    ELSE IF ~bkInfo.ok
    THEN FullSyncDone([f EXCEPT !.io = Append(@, Send("-ERR backup failed:"))], "")
    ELSE LET f1 == [f EXCEPT !.backups = @ + 1, !.files = bkInfo.files] IN
         IF ~writeOk
         THEN GuardedReturn(f1, "writeLine failed")
         ELSE NextFile([f1 EXCEPT !.io = Append(@, ManifestLine(f1.files))])

supplyFullSyncRoutineStart(k) ==
    LET f == fullSyncs[k] IN
    /\ fault = "none"
    /\ f.pc = "start"
    /\ IF getInstanceById(f.storeId) = -1
       THEN \* INVARIANT(store != nullptr) fails
            /\ fault' = "INVARIANT"
            /\ UNCHANGED fullSyncs
       ELSE /\ \E running \in BOOLEAN, bkInfo \in BackupResults,
                  writeOk \in BOOLEAN :
                 fullSyncs' = [fullSyncs EXCEPT ![k] =
                                  RoutineStart(f, running, bkInfo, writeOk)]
            /\ UNCHANGED fault
    /\ UNCHANGED <<firstBinlogId, binlog, pushStatus, clientIdGen, conns,
                   tasks, failedPush, mutex, delivered>>

\* Lines 318-331: the file name line, the open of the file, and the test of
\* the while loop before its first pass.
RoutineFile(f, writeOk, openOk) ==
    LET fileInfo == f.files[f.idx] IN
    IF ~writeOk THEN GuardedReturn(f, "write fname failed")
    ELSE LET f1 == [f EXCEPT !.io = Append(@, Send(fileInfo.name))] IN
         IF ~openOk THEN GuardedReturn(f1, "open file for read failed")
         ELSE IF fileInfo.size # 0
         THEN [f1 EXCEPT !.remain = fileInfo.size, !.pc = "chunk"]
         ELSE NextFile(f1)

supplyFullSyncRoutineFile(k) ==
    /\ fault = "none"
    /\ fullSyncs[k].pc = "file"
    /\ \E writeOk \in BOOLEAN, openOk \in BOOLEAN :
         fullSyncs' = [fullSyncs EXCEPT ![k] =
                          RoutineFile(fullSyncs[k], writeOk, openOk)]
    /\ UNCHANGED <<firstBinlogId, binlog, pushStatus, clientIdGen, conns,
                   tasks, fault, failedPush, mutex, delivered>>

\* BatchSize that takes the whole of what remains.
BatchSizeWhole(remain, capacity) == remain

\* Line 332.
BatchSize(remain, capacity) == IF remain < capacity THEN remain ELSE capacity

\* Lines 331-346: one pass of the while loop, and its test after the pass.
RoutineChunk(f, readOk, writeOk) ==
    LET batchSize == BatchSize(f.remain, ReadBufCapacity)
        remain == f.remain - batchSize
    IN IF ~readOk THEN GuardedReturn(f, "read file failed")
       ELSE IF ~writeOk THEN GuardedReturn(f, "write bulk to client failed")
       ELSE LET f1 == [f EXCEPT !.remain = remain,
                                !.io = Append(@, Data(batchSize))]
            IN IF remain # 0 THEN f1 ELSE NextFile(f1)

supplyFullSyncRoutineChunk(k) ==
    /\ fault = "none"
    /\ fullSyncs[k].pc = "chunk"
    /\ \E readOk \in BOOLEAN, writeOk \in BOOLEAN :
         fullSyncs' = [fullSyncs EXCEPT ![k] =
                          RoutineChunk(fullSyncs[k], readOk, writeOk)]
    /\ UNCHANGED <<firstBinlogId, binlog, pushStatus, clientIdGen, conns,
                   tasks, fault, failedPush, mutex, delivered>>

\* Lines 348-357: the acknowledgement, and the end of the routine.
RoutineAck(f, reply) ==
    IF reply = ReadFailed
    THEN GuardedReturn(f, "fullsync done read reply failed")
    ELSE GuardedReturn([f EXCEPT !.io = Append(@, Recv(reply))],
                       "fullsync done read reply")

supplyFullSyncRoutineAck(k) ==
    /\ fault = "none"
    /\ fullSyncs[k].pc = "ack"
    /\ \E reply \in AckLines \cup {ReadFailed} :
         fullSyncs' = [fullSyncs EXCEPT ![k] = RoutineAck(fullSyncs[k], reply)]
    /\ UNCHANGED <<firstBinlogId, binlog, pushStatus, clientIdGen, conns,
                   tasks, fault, failedPush, mutex, delivered>>

FullSyncNext ==
    \/ supplyFullSync
    \/ \E k \in 1 .. Len(fullSyncs) : supplyFullSyncRoutineStart(k)
    \/ \E k \in 1 .. Len(fullSyncs) : supplyFullSyncRoutineFile(k)
    \/ \E k \in 1 .. Len(fullSyncs) : supplyFullSyncRoutineChunk(k)
    \/ \E k \in 1 .. Len(fullSyncs) : supplyFullSyncRoutineAck(k)

\* The full-sync supplier alone: it shares no state with the push side.
FullSyncSpec == Init /\ [][FullSyncNext]_vars

\* A routine handed to the full-sync pool runs on a thread of its own, and
\* each of its socket calls ends within its timeout: no step of a routine
\* waits for ever.
FullSyncLiveSpec ==
    /\ FullSyncSpec
    /\ \A k \in 1 .. MaxFullSyncs :
          /\ WF_vars(k <= Len(fullSyncs) /\ supplyFullSyncRoutineStart(k))
          /\ WF_vars(k <= Len(fullSyncs) /\ supplyFullSyncRoutineFile(k))
          /\ WF_vars(k <= Len(fullSyncs) /\ supplyFullSyncRoutineChunk(k))
          /\ WF_vars(k <= Len(fullSyncs) /\ supplyFullSyncRoutineAck(k))

---------------------------------------------------------------------------
(* Properties of the manager (Spec).                                       *)

\* C1: for every (storeId, clientId) at most one masterPushRoutine
\* invocation is alive, every invocation whose entry exists finds it
\* isRunning, and the INVARIANT of the finaliser never fails.
C1_OneRoutinePerEntry ==
    /\ fault = "none"
    /\ \A s \in Stores : \A c \in 0 .. (clientIdGen - 1) : Active(s, c) <= 1
    /\ \A t \in TaskSet :
         t.clientId \in DOMAIN pushStatus[t.storeId]
            => pushStatus[t.storeId][t.clientId].isRunning

\* Two entries are pushed at once, and the finaliser of one is about to run
\* on an entry that exists.
C1_Witness ==
    \E t1, t2 \in TaskSet :
       /\ <<t1.storeId, t1.clientId>> # <<t2.storeId, t2.clientId>>
       /\ t1.pc = "guard"
       /\ t1.clientId \in DOMAIN pushStatus[t1.storeId]
       /\ pushStatus[t1.storeId][t1.clientId].isRunning

\* C2: the binlogPos of an entry never decreases, from its registration to
\* its erasure, whatever the push iterations do.
C2_BinlogPosMonotonic ==
    [][\A s \in Stores :
         \A c \in (DOMAIN pushStatus[s]) \cap (DOMAIN pushStatus'[s]) :
            pushStatus'[s][c].binlogPos >= pushStatus[s][c].binlogPos]_vars

\* An entry has advanced to the end of the binlog, an empty iteration has
\* then backed it off, and some iteration has failed.
C2_Witness ==
    /\ failedPush # {}
    /\ \E s \in Stores : \E c \in DOMAIN pushStatus[s] :
          /\ pushStatus[s][c].binlogPos = MaxTxnId
          /\ pushStatus[s][c].nextSchedTime > now

HandshakeDone(k) == conns[k].pc = "done" /\ conns[k].io = Handshake

ClientOf(k) ==
    {<<s, c>> \in Stores \X (0 .. (clientIdGen - 1)) :
        c \in DOMAIN pushStatus[s] /\ pushStatus[s][c].client = k}

\* C4: an entry exists only for a connection on which INCRSYNC, +OK and
\* +PONG were exchanged in that order; no more entries were ever created
\* than handshakes completed; a connection whose read after +OK failed or
\* gave another line has no entry.
C4_EntryOnlyAfterHandshake ==
    /\ \A s \in Stores : \A c \in DOMAIN pushStatus[s] :
          /\ pushStatus[s][c].client \in 1 .. Len(conns)
          /\ HandshakeDone(pushStatus[s][c].client)
    /\ clientIdGen <= Cardinality({k \in 1 .. Len(conns) : HandshakeDone(k)})
    /\ \A k \in 1 .. Len(conns) :
          (/\ Len(conns[k].io) >= 3
           /\ conns[k].io[2] = Send("+OK")
           /\ conns[k].io[3] # Recv("+PONG")) => ClientOf(k) = {}

\* One slave is registered; another got +OK and then failed to answer +PONG.
C4_Witness ==
    \E k1, k2 \in 1 .. Len(conns) :
       /\ ClientOf(k1) # {}
       /\ Len(conns[k2].io) = 3
       /\ conns[k2].io[2] = Send("+OK")
       /\ conns[k2].io[3] # Recv("+PONG")

\* C5: when the _firstBinlogId read for a request is greater than its
\* binlogPos, the handler's next step replies "-ERR invalid binlogPos" and
\* nothing else (no +OK), and leaves pushStatus and clientIdGen unchanged.
C5_StaleOffsetRejected ==
    [][\A k \in 1 .. Len(conns) :
         (/\ conns[k].pc = "check"
          /\ conns[k].firstPos > conns[k].binlogPos
          /\ conns'[k] # conns[k])
         => /\ conns'[k].pc = "done"
            /\ conns'[k].io = <<Recv("INCRSYNC"), Send("-ERR invalid binlogPos")>>
            /\ pushStatus' = pushStatus
            /\ clientIdGen' = clientIdGen]_vars

\* A request was rejected for its stale position.
C5_Witness ==
    \E k \in 1 .. Len(conns) :
       /\ conns[k].pc = "done"
       /\ conns[k].io = <<Recv("INCRSYNC"), Send("-ERR invalid binlogPos")>>

\* C6: a step that inserts an entry finds _firstBinlogId[storeId] <= the
\* entry's binlogPos; a registration that finds _firstBinlogId[storeId]
\* above its binlogPos after the handshake ends without inserting an entry
\* and without taking a clientId.
C6_RecheckUnderMutex ==
    [][/\ \A s \in Stores :
            \A c \in (DOMAIN pushStatus'[s]) \ (DOMAIN pushStatus[s]) :
               firstBinlogId[s] <= pushStatus'[s][c].binlogPos
       /\ \A k \in 1 .. Len(conns) :
            (/\ conns[k].pc = "regist"
             /\ conns'[k].pc = "done"
             /\ firstBinlogId[conns[k].storeId] > conns[k].binlogPos)
            => /\ pushStatus' = pushStatus
               /\ clientIdGen' = clientIdGen]_vars

\* A handshake completed, and yet no entry was ever created: the binlog was
\* recycled past the position between the first check and the registration.
C6_Witness ==
    /\ clientIdGen = 0
    /\ \E k \in 1 .. Len(conns) : HandshakeDone(k)

\* C7: after a failed push iteration of (storeId, clientId) the entry is gone
\* once the routine has returned (its finaliser runs on no entry), and no
\* other invocation for that clientId exists or is dispatched.
C7_FailedPushErased ==
    \A f \in failedPush :
       LET mine == {t \in TaskSet : <<t.storeId, t.clientId>> = f} IN
       /\ \A t \in mine : t.pc \in {"finish", "guard"}
       /\ Active(f[1], f[2]) <= 1
       /\ (\A t \in mine : t.pc = "guard") => f[2] \notin DOMAIN pushStatus[f[1]]

\* A push failed and its routine has returned, while another slave is still
\* registered.
C7_Witness ==
    \E f \in failedPush :
       /\ Active(f[1], f[2]) = 0
       /\ \E s \in Stores : DOMAIN pushStatus[s] # {}

\* C14: a thread that is at a blocking socket call (the reply and the read
\* of registerIncrSync, the write and the read of masterSendBinlog) does not
\* hold the manager mutex: every lock_guard scope has ended before.
C14_NoIoUnderMutex ==
    /\ \A k \in 1 .. Len(conns) :
          conns[k].pc = "check" => mutex # ConnThread(k)
    /\ \A t \in TaskSet :
          t.pc = "send" => mutex # TaskThread(t)

\* A registration is about to reply and read, and a push routine is about
\* to write and read, each having left a critical section.
C14_Witness ==
    /\ \E k \in 1 .. Len(conns) : conns[k].pc = "check"
    /\ \E t \in TaskSet : t.pc = "send" /\ t.binlogPos > 0

\* The clientIds of the live entries, with the store of each.
LiveIds == {<<s, c>> \in Stores \X (0 .. clientIdGen) : c \in DOMAIN pushStatus[s]}

\* C15: no two entries ever have the same clientId: the live entries have
\* distinct clientIds, all below _clientIdGen, which never decreases; and a
\* step that creates an entry creates one only, under the value of
\* _clientIdGen that the step then passes, with the binlogPos and the
\* connection of the registration that made the step.
C15_ClientIdUnique ==
    /\ [](/\ \A x, y \in LiveIds : x[2] = y[2] => x = y
          /\ \A s \in Stores : \A c \in DOMAIN pushStatus[s] :
                c < clientIdGen /\ pushStatus[s][c].clientId = c)
    /\ [][/\ clientIdGen' >= clientIdGen
          /\ \A s \in Stores :
               \A c \in (DOMAIN pushStatus'[s]) \ (DOMAIN pushStatus[s]) :
                  /\ c = clientIdGen
                  /\ clientIdGen' = clientIdGen + 1
                  /\ \E k \in 1 .. Len(conns) :
                        /\ conns[k].pc = "regist"
                        /\ conns[k].storeId = s
                        /\ pushStatus'[s][c].binlogPos = conns[k].binlogPos
                        /\ pushStatus'[s][c].client = k
                        /\ ~pushStatus'[s][c].isRunning]_vars

\* The entry with clientId 0 was erased after a failed push, and the slave
\* that registered after it has the entry with clientId 1, at the position
\* it asked for, on the same store.
C15_Witness ==
    \E s \in Stores :
       /\ <<s, 0>> \in failedPush
       /\ 0 \notin DOMAIN pushStatus[s]
       /\ 1 \in DOMAIN pushStatus[s]
       /\ pushStatus[s][1].binlogPos = 1
       /\ pushStatus[s][1].client = 2

\* The invocation t takes a step of masterPushRoutine: it moves on, or ends.
PushStep(t) ==
    /\ t \in TaskSet
    /\ \A u \in BagToSet(tasks') :
          ~(u.storeId = t.storeId /\ u.clientId = t.clientId /\ u.pc = t.pc)

\* C16: a step of the push routine of (storeId, clientId), successful or
\* failed, leaves every other entry of pushStatus as it was (present, with
\* the same binlogPos, isRunning and nextSchedTime), creates no entry, and
\* leaves firstBinlogId as it was.
C16_PushChangesOwnEntryOnly ==
    [][\A t \in TaskSet :
         PushStep(t) =>
            /\ firstBinlogId' = firstBinlogId
            /\ \A s \in Stores :
                 /\ DOMAIN pushStatus'[s] \subseteq DOMAIN pushStatus[s]
                 /\ \A c \in DOMAIN pushStatus[s] :
                      <<s, c>> # <<t.storeId, t.clientId>> =>
                         /\ c \in DOMAIN pushStatus'[s]
                         /\ pushStatus'[s][c] = pushStatus[s][c]]_vars

\* Two slaves are registered on one store: the push of one has failed and
\* its entry is gone, the other's is being pushed.
C16_Witness ==
    \E s \in Stores : \E c1, c2 \in 0 .. (clientIdGen - 1) :
       /\ c1 # c2
       /\ <<s, c1>> \in failedPush
       /\ c1 \notin DOMAIN pushStatus[s]
       /\ c2 \in DOMAIN pushStatus[s]
       /\ pushStatus[s][c2].isRunning
       /\ <<s, c2>> \notin failedPush

\* The invocations of masterPushRoutine(t.storeId, t.clientId) after the step.
After(t) ==
    {u \in BagToSet(tasks') : u.storeId = t.storeId /\ u.clientId = t.clientId}

\* C17: an entry that is isRunning has its routine alive; when a successful
\* iteration stores its position, the finaliser's time point is now if the
\* position grew and now + 1 s if it did not; and the finaliser, when the
\* entry exists, clears isRunning and stores that time point.
C17_FinaliserResets ==
    /\ [](\A s \in Stores : \A c \in DOMAIN pushStatus[s] :
            pushStatus[s][c].isRunning => Active(s, c) = 1)
    /\ [][\A t \in TaskSet :
            LET s == t.storeId
                c == t.clientId
            IN
            /\ (PushStep(t) /\ t.pc = "finish" /\ t.ok) =>
                  /\ c \in DOMAIN pushStatus'[s]
                  /\ \A u \in After(t) :
                        /\ u.pc = "guard"
                        /\ u.nextSched =
                             (IF pushStatus'[s][c].binlogPos > pushStatus[s][c].binlogPos
                              THEN now ELSE now + 1)
            /\ (PushStep(t) /\ t.pc = "guard" /\ c \in DOMAIN pushStatus[s]) =>
                  /\ After(t) = {}
                  /\ c \in DOMAIN pushStatus'[s]
                  /\ ~pushStatus'[s][c].isRunning
                  /\ pushStatus'[s][c].nextSchedTime = t.nextSched
                  /\ pushStatus'[s][c].binlogPos = pushStatus[s][c].binlogPos]_vars

\* Two entries whose routines have returned: one advanced and may be pushed
\* again now, the other sent an empty batch and waits a second.
C17_Witness ==
    \E s1, s2 \in Stores :
       \E c1 \in DOMAIN pushStatus[s1], c2 \in DOMAIN pushStatus[s2] :
          /\ Active(s1, c1) = 0 /\ Active(s2, c2) = 0
          /\ ~pushStatus[s1][c1].isRunning /\ ~pushStatus[s2][c2].isRunning
          /\ delivered[s1][c1].rows # <<>>
          /\ pushStatus[s1][c1].nextSchedTime = now
          /\ pushStatus[s2][c2].nextSchedTime = now + 1

---------------------------------------------------------------------------
(* Properties of the batcher (BatchSpec).                                  *)

\* What the cursor of the invocation t yields.
CursorOf(t) == BinlogCursor(binlog[t.storeId], t.binlogPos + 1)

TxnIdsOf(rows) == {rows[i].txnId : i \in 1 .. Len(rows)}

RowsOfTxn(rows, id) == {rows[i] : i \in {j \in 1 .. Len(rows) : rows[j].txnId = id}}

\* masterSendBinlog has returned a position to the invocation t.
Acked(t) == t.pc = "finish" /\ t.ok

\* C3: a batch holds every row the cursor yields for each transaction it
\* holds a row of.
C3_BatchEndsOnTxnBoundary ==
    \A t \in TaskSet :
       t.pc = "finish" =>
          \A id \in TxnIdsOf(t.binlogs) :
             RowsOfTxn(CursorOf(t), id) = RowsOfTxn(t.binlogs, id)

\* A batch closed by the byte threshold, below the count threshold, after a
\* transaction of three rows.
C3_Witness ==
    \E t \in TaskSet :
       /\ Acked(t)
       /\ Len(t.binlogs) < Len(CursorOf(t))
       /\ Len(t.binlogs) < suggestBatch - 1
       /\ Len(t.binlogs) >= 3
       /\ Last(t.binlogs).localId = 3

\* C8: after +OK the returned position is the txnId of the last row of a
\* non-empty batch, and fromPos for an empty batch, whose frame of zero rows
\* was written; the position is what the routine then stores in the entry.
C8_ReturnedPosition ==
    /\ [](\A t \in TaskSet :
            Acked(t) =>
               /\ Len(t.sent) = 1
               /\ t.sent[1].rows = t.binlogs
               /\ t.sent[1].arrayLen = 2 + 2 * Len(t.binlogs)
               /\ Len(t.binlogs) > 0 => t.newPos = Last(t.binlogs).txnId
               /\ Len(t.binlogs) = 0 => t.newPos = t.binlogPos)
    /\ [][\A t \in TaskSet :
            (Acked(t) /\ t \notin BagToSet(tasks')) =>
               pushStatus'[t.storeId][t.clientId].binlogPos =
                  IF Len(t.binlogs) > 0 THEN Last(t.binlogs).txnId
                  ELSE t.binlogPos]_vars

\* An empty batch was sent and acknowledged after the entry had advanced.
C8_Witness ==
    \E t \in TaskSet :
       /\ Acked(t)
       /\ t.binlogs = <<>>
       /\ t.binlogPos > 1
       /\ t.newPos = t.binlogPos

\* The first n rows of the cursor are n one-row transactions.
SingleRowTxns(rows, n) ==
    /\ Len(rows) >= n
    /\ \A i, j \in 1 .. n : i # j => rows[i].txnId # rows[j].txnId

\* C9: with more than suggestBatch one-row transactions after fromPos and
\* the byte threshold out of reach, an acknowledged push holds exactly the
\* first suggestBatch rows and returns the suggestBatch-th txnId.
C9_BatchOfSuggestBatchRows ==
    \A t \in TaskSet :
       (/\ Acked(t)
        /\ SingleRowTxns(CursorOf(t), suggestBatch + 1)
        /\ SeqSum(SubSeq(CursorOf(t), 1, suggestBatch + 1),
                  LAMBDA r : r.size) < suggestBytes)
       => /\ t.binlogs = SubSeq(CursorOf(t), 1, suggestBatch)
          /\ t.newPos = CursorOf(t)[suggestBatch].txnId

\* The payload bytes of the first transaction the cursor yields.
FirstTxnBytes(rows) ==
    SeqSum(SelectSeq(rows, LAMBDA r : r.txnId = rows[1].txnId),
           LAMBDA r : r.size)

\* C10: when the first transaction after fromPos holds suggestBytes or more,
\* an acknowledged push holds all of its rows and returns its txnId.
C10_OversizeTxnSentWhole ==
    \A t \in TaskSet :
       (/\ Acked(t)
        /\ CursorOf(t) # <<>>
        /\ FirstTxnBytes(CursorOf(t)) >= suggestBytes)
       => /\ RowsOfTxn(CursorOf(t), CursorOf(t)[1].txnId)
               = RowsOfTxn(t.binlogs, CursorOf(t)[1].txnId)
          /\ t.newPos = CursorOf(t)[1].txnId

\* The rows of the log lg with a txnId above from and up to to.
RowsBetween(lg, from, to) ==
    SelectSeq(lg, LAMBDA r : r.txnId > from /\ r.txnId <= to)

\* The position acknowledged to the entry (s, c): the one a frame just
\* acknowledged returned, or the entry's.
AckedPos(s, c) ==
    LET own == {t \in TaskSet : t.storeId = s /\ t.clientId = c /\ Acked(t)}
    IN IF own = {} THEN pushStatus[s][c].binlogPos
       ELSE (CHOOSE t \in own : TRUE).newPos

CaughtUp(s, c) == BinlogCursor(binlog[s], pushStatus[s][c].binlogPos + 1) = <<>>

\* C19: unless a push fails (an I/O or cursor error, or an answer other
\* than +OK), every registered entry is in the end sent every row of its
\* store's log, whatever the row counts and payload sizes of the log.
C19_CatchUp ==
    <>(\/ failedPush # {}
       \/ \A s \in Stores : \A c \in DOMAIN pushStatus[s] : CaughtUp(s, c))

\* C11: the timeout of a written frame is 1 s up to 1 MiB, 2 s above 1 MiB
\* and up to 10 MiB, and 4 s above 10 MiB.
C11_TimeoutTiers ==
    \A t \in TaskSet :
       t.sent # <<>> =>
          t.secs = (IF t.sent[1].size <= MiB THEN 1
                    ELSE IF t.sent[1].size <= 10 * MiB THEN 2
                    ELSE 4)

---------------------------------------------------------------------------
(* Properties of the full-sync supplier (FullSyncSpec).                    *)

\* C12: a full sync whose store->backup() succeeded has called
\* store->releaseBackup() exactly once when its routine has returned,
\* whatever the exit, and not at all before; one whose backup did not
\* succeed never calls it.
C12_BackupReleasedOnce ==
    \A k \in 1 .. Len(fullSyncs) :
       LET f == fullSyncs[k] IN
       /\ f.backups <= 1
       /\ f.releases = (IF f.pc = "done" THEN f.backups ELSE 0)

\* One full sync ended acknowledged after sending bytes, another on a failed
\* write of file bytes; each released its backup.
C12_Witness ==
    \E k1, k2 \in 1 .. Len(fullSyncs) :
       /\ fullSyncs[k1].log = "fullsync done read reply"
       /\ \E i \in 1 .. Len(fullSyncs[k1].io) : fullSyncs[k1].io[i].dir = "data"
       /\ fullSyncs[k1].releases = 1
       /\ fullSyncs[k2].log = "write bulk to client failed"
       /\ fullSyncs[k2].releases = 1

\* C13: a FULLSYNC request whose storeId is not in [0, INSTANCE_NUM) is
\* answered by the handler with an -ERR line and goes no further: it is
\* never handed to the full-sync pool, and no assertion fails.
C13_InvalidStoreRejected ==
    /\ \A k \in 1 .. Len(fullSyncs) :
          fullSyncs[k].pc = "start" => fullSyncs[k].storeId \in Stores
    /\ fault = "none"

\* The place in io of the name line of the i-th file of f.
NameAt(f, i) == CHOOSE p \in 1 .. Len(f.io) : f.io[p] = Send(f.files[i].name)

\* The place in io that ends the blocks of the i-th file of f: the name line
\* of the next file, or the acknowledgement.
EndAt(f, i) == IF i = Len(f.files) THEN Len(f.io) ELSE NameAt(f, i + 1)

\* The lengths of the blocks written for the i-th file of f.
ChunksOf(f, i) == [j \in 1 .. (EndAt(f, i) - NameAt(f, i) - 1) |->
                      f.io[NameAt(f, i) + j]]

\* The full sync f was acknowledged: no call of it failed.
FullSyncAcked(f) == f.pc = "done" /\ f.log = "fullsync done read reply"

\* C18: an acknowledged full sync has put on the wire, after the request,
\* the manifest line, then for each file of the backup, in the order of
\* the manifest, its name line followed by raw blocks only, each of 1 byte
\* to 20 MiB, their lengths adding up to the file's size (no block for an
\* empty file), and it has then read one line; and a full sync that is
\* streaming a file comes to the end of that file (or to an error return),
\* unless the process has stopped on an assertion.
C18_FullSyncStream ==
    /\ [](\A k \in 1 .. Len(fullSyncs) :
            LET f == fullSyncs[k] IN
            FullSyncAcked(f) =>
               /\ Len(f.io) >= 3
               /\ f.io[1] = Recv("FULLSYNC")
               /\ f.io[2] = ManifestLine(f.files)
               /\ f.io[Len(f.io)].dir = "recv"
               /\ \A i \in 1 .. Len(f.files) :
                     /\ \E p \in 3 .. Len(f.io) : f.io[p] = Send(f.files[i].name)
                     /\ NameAt(f, i) = (IF i = 1 THEN 3 ELSE EndAt(f, i - 1))
                     /\ NameAt(f, i) < EndAt(f, i)
                     /\ \A j \in 1 .. Len(ChunksOf(f, i)) :
                           /\ ChunksOf(f, i)[j].dir = "data"
                           /\ ChunksOf(f, i)[j].len >= 1
                           /\ ChunksOf(f, i)[j].len <= 20 * MiB
                     /\ SeqSum(ChunksOf(f, i), LAMBDA d : d.len) = f.files[i].size
               /\ Len(f.files) = 0 => Len(f.io) = 3)
    /\ \A k \in 1 .. MaxFullSyncs :
          (k <= Len(fullSyncs) /\ fullSyncs[k].pc = "chunk")
             ~> \/ k <= Len(fullSyncs) /\ fullSyncs[k].pc \in {"file", "ack", "done"}
                \/ fault # "none"

\* An acknowledged full sync of two files: an empty one, and one of 20 MiB
\* and a byte, sent as two blocks.
C18_Witness ==
    \E k \in 1 .. Len(fullSyncs) :
       LET f == fullSyncs[k] IN
       /\ FullSyncAcked(f)
       /\ Len(f.files) = 2
       /\ f.files[1].size = 0
       /\ f.files[2].size = ReadBufCapacity + 1
       /\ Len(f.io) = 7

=============================================================================
